---- MODULE Spec2Model ----
(***************************************************************************)
(* PasswordManagementSection.tsx as a state machine.                       *)
(*                                                                         *)
(* One instance of the React function component is followed from its first *)
(* commit to after its teardown.  The state is the component's props, its  *)
(* three useState cells, the interval timers it has registered, the unlock *)
(* calls it has in flight, and `view`: what the last commit put on screen. *)
(* The screen is only recomputed by a commit, so `view` can lag behind the *)
(* wall clock; this is what the lock badge claims are about.               *)
(*                                                                         *)
(* React scheduling that the model keeps:                                  *)
(*  - a setState with the value the cell already holds is dropped without  *)
(*    a re-render (Object.is bail-out);                                    *)
(*  - useEffect callbacks and their cleanups are passive: they run after   *)
(*    the commit that scheduled them, as a step of their own, and always   *)
(*    before the next render of the component.  Time may pass and a timer  *)
(*    callback may run between the commit and that step;                   *)
(*  - a setState on a torn down component is ignored.                      *)
(*                                                                         *)
(* Nullable values (Date | null, string | null) are sequences of length    *)
(* at most one: Null is <<>>, a value v is <<v>>.                          *)
(*                                                                         *)
(* Dates are whole numbers of clock steps, ClockStep milliseconds each,    *)
(* counted from the instant of the first render (TLC integers are 32 bit,  *)
(* 91 days in milliseconds are not).  d.getTime() is d * ClockStep.        *)
(***************************************************************************)
EXTENDS Integers, Sequences, FiniteSets, TLC

Null == <<>>

(* ------------------------------- bounds -------------------------------- *)

\* The clock advances in steps of 1000 / 2^ClockBits milliseconds.
ClockBits == 1
\* Last clock step explored.
MaxNow == 4
\* Longest a due timer callback is held back, in clock steps.
MaxLate == 1
\* Re-renders by the parent with changed props.
MaxPropChanges == 1
\* Clicks on Unlock.
MaxUnlocks == 2

(* -------------------------- program constants -------------------------- *)

\* setInterval(updateTimer, 1000)
IntervalMs == 1000
\* 1000 * 60 * 60 * 24
MsPerDay == 1000 * 60 * 60 * 24
\* 1000 * 60
MsPerMinute == 1000 * 60
\* passwordAgeInDays > 90
StaleAfterDays == 90

ClockStep == IntervalMs \div (2 ^ ClockBits)
IntervalSteps == IntervalMs \div ClockStep
StepsPerDay == MsPerDay \div ClockStep
Seconds(n) == (n * 1000) \div ClockStep

(* ------------------------------- inputs -------------------------------- *)

Members ==
    { [memberNumber |-> "TM001", memberName |-> "Ann"],
      [memberNumber |-> "TM002", memberName |-> "Bob"] }

\* Lock expiries: none, one clock step ahead, 65 s ahead.
LockedUntilValues == { Null, <<1>>, <<Seconds(65)>> }

\* Password set: never, one step short of 90 days ago, one step short of 91
\* days ago (both measured at the first render).
PasswordSetAtValues ==
    { Null, <<1 - StaleAfterDays * StepsPerDay>>,
            <<1 - (StaleAfterDays + 1) * StepsPerDay>> }

PropsValues ==
    { [memberNumber |-> m.memberNumber, memberName |-> m.memberName,
       passwordSetAt |-> p, lockedUntil |-> l] :
         m \in Members, p \in PasswordSetAtValues, l \in LockedUntilValues }

\* What supabase.rpc can answer: { error: null }, { error: { message } }, or
\* a rejection with an Error carrying a message.
Outcomes ==
    { [kind |-> "ok", message |-> ""],
      [kind |-> "error", message |-> "denied"],
      [kind |-> "throw", message |-> "timeout"] }

(* --------------------------- pure computations ------------------------- *)

\* passwordSetAt ? Math.floor((Date.now() - passwordSetAt.getTime()) / MsPerDay) : 0
passwordAgeInDays(passwordSetAt, t) ==
    IF passwordSetAt # Null THEN (t - passwordSetAt[1]) \div StepsPerDay ELSE 0

passwordAgeStatusGE(ageInDays) ==
    IF ageInDays >= StaleAfterDays THEN "warning" ELSE "success"

\* passwordAgeInDays > 90 ? 'warning' : 'success'
passwordAgeStatus(ageInDays) ==
    IF ageInDays > StaleAfterDays THEN "warning" ELSE "success"

\* `${minutes}m ${seconds}s`
FormatRemaining(minutes, seconds) ==
    ToString(minutes) \o "m " \o ToString(seconds) \o "s"

\* updateTimer: the value it hands to setTimeRemaining at clock step t.
updateTimer(lockedUntil, t) ==
    LET diff == (lockedUntil[1] - t) * ClockStep
    IN  IF diff <= 0
        THEN Null
        ELSE <<FormatRemaining(diff \div MsPerMinute, (diff % MsPerMinute) \div 1000)>>

\* lockedUntil && new Date(lockedUntil) > new Date()
LockShown(lockedUntil, t) == lockedUntil # Null /\ lockedUntil[1] > t

\* The rendered output of one call of the component function at clock step t.
Render(p, srd, iu, tr, t) ==
    [ passwordClass |->
          IF passwordAgeStatus(passwordAgeInDays(p.passwordSetAt, t)) = "warning"
          THEN "yellow" ELSE "green",
      passwordLabel |-> IF p.passwordSetAt # Null THEN "Set ago" ELSE "No Password",
      lockBadge |-> LockShown(p.lockedUntil, t),
      lockLabel |-> IF ~LockShown(p.lockedUntil, t) THEN ""
                    ELSE IF tr # Null THEN "Locked for " \o tr[1] ELSE "Locked",
      unlockButton |-> LockShown(p.lockedUntil, t),
      unlockDisabled |-> LockShown(p.lockedUntil, t) /\ iu,
      unlockLabel |-> IF ~LockShown(p.lockedUntil, t) THEN ""
                      ELSE IF iu THEN "Unlocking..." ELSE "Unlock",
      dialogOpen |-> srd,
      dialogMemberNumber |-> p.memberNumber,
      dialogMemberName |-> p.memberName ]

\* Nothing of the component is on screen.
NoView ==
    [ passwordClass |-> "", passwordLabel |-> "", lockBadge |-> FALSE,
      lockLabel |-> "", unlockButton |-> FALSE, unlockDisabled |-> FALSE,
      unlockLabel |-> "", dialogOpen |-> FALSE, dialogMemberNumber |-> "",
      dialogMemberName |-> "" ]

(* -------------------------------- state -------------------------------- *)

VARIABLES
    mounted,            \* the instance is in the tree
    now,                \* the wall clock, in clock steps
    props,              \* the props of the last render
    showResetDialog,    \* useState(false)
    isUnlocking,        \* useState(false)
    timeRemaining,      \* useState<string | null>(null)
    view,               \* what the last commit put on screen
    effectPending,      \* the countdown effect (or its cleanup) is scheduled
    effectCleanup,      \* the timer handle the effect's cleanup will clear
    timers,             \* the interval timers registered with the host
    invocations,        \* the calls of handleUnlockAccount, in order
    rpcLog,             \* the requests sent through supabase.rpc
    toasts,             \* the notifications shown through sonner
    unhandled,          \* some handleUnlockAccount promise was rejected
    propChanges,        \* re-renders by the parent so far
    tickedAfterExpiry,  \* updateTimer has run from the timer at or after expiry
    firedAfterRelease   \* a timer callback ran after teardown or lockedUntil = null

vars ==
    << mounted, now, props, showResetDialog, isUnlocking, timeRemaining, view,
       effectPending, effectCleanup, timers, invocations, rpcLog, toasts,
       unhandled, propChanges, tickedAfterExpiry, firedAfterRelease >>

local == << showResetDialog, isUnlocking, timeRemaining >>
unlockVars == << invocations, rpcLog, toasts, unhandled >>
history == << tickedAfterExpiry, firedAfterRelease >>

\* The first render and commit: the useState initial values, the effect
\* scheduled and not yet run.  The code treats all members alike, so the
\* first render is of the first member; the parent may change to the other.
Init ==
    /\ mounted = TRUE
    /\ now = 0
    /\ props \in { p \in PropsValues : p.memberNumber = "TM001" }
    /\ showResetDialog = FALSE
    /\ isUnlocking = FALSE
    /\ timeRemaining = Null
    /\ view = Render(props, FALSE, FALSE, Null, 0)
    /\ effectPending = TRUE
    /\ effectCleanup = Null
    /\ timers = {}
    /\ invocations = <<>>
    /\ rpcLog = <<>>
    /\ toasts = <<>>
    /\ unhandled = FALSE
    /\ propChanges = 0
    /\ tickedAfterExpiry = FALSE
    /\ firedAfterRelease = FALSE

(* --------------------------- React's commit ---------------------------- *)

\* A state update re-renders the component unless every cell keeps its value.
RenderIfChanged ==
    view' = IF local' # local
            THEN Render(props', showResetDialog', isUnlocking', timeRemaining', now')
            ELSE view

(* ---------------------------- countdown timer -------------------------- *)

FreshId(tms) ==
    CHOOSE i \in 1..(Cardinality(tms) + 1) : \A x \in tms : x.id # i

\* const timer = setInterval(updateTimer, 1000), with lockedUntil in its closure
SetInterval(tms, lockedUntil, t) ==
    tms \cup { [id |-> FreshId(tms), lockedUntil |-> lockedUntil,
                due |-> t + IntervalSteps] }

ClearIntervalForgotten(tms, handle) == tms

\* return () => clearInterval(timer)
ClearInterval(tms, handle) == { x \in tms : <<x.id>> # handle }

\* if (!lockedUntil) return;   (a torn down component runs the cleanup only)
EffectStarts(isMounted, p) == isMounted /\ p.lockedUntil # Null

\* One flush of the effect: the previous run's cleanup, then the body.
FlushEffect(tms, handle, isMounted, p, t) ==
    LET cleared == ClearInterval(tms, handle)
    IN  IF EffectStarts(isMounted, p)
        THEN [ timers |-> SetInterval(cleared, p.lockedUntil, t),
               handle |-> <<FreshId(cleared)>> ]
        ELSE [ timers |-> cleared, handle |-> Null ]

\* The host re-arms an interval timer after its callback has run.
Rearm(tms, tm, t) ==
    (tms \ {tm}) \cup { [tm EXCEPT !.due = t + IntervalSteps] }

\* The passive effect runs: cleanup of the previous run, then (line 54-71)
\* the timer is started and updateTimer() is called once.
RunEffect ==
    /\ effectPending
    /\ LET f == FlushEffect(timers, effectCleanup, mounted, props, now)
       IN  /\ timers' = f.timers
           /\ effectCleanup' = f.handle
           /\ timeRemaining' = IF EffectStarts(mounted, props)
                               THEN updateTimer(props.lockedUntil, now)
                               ELSE timeRemaining
    /\ effectPending' = FALSE
    /\ UNCHANGED << mounted, now, props, showResetDialog, isUnlocking >>
    /\ RenderIfChanged
    /\ UNCHANGED << unlockVars, propChanges, history >>

\* An interval timer's callback runs: updateTimer with the lockedUntil of the
\* effect run that registered it.  When its setTimeRemaining changes the
\* state while an effect flush is pending, React flushes the effect before
\* the render that the update asked for.
Tick(tm) ==
    /\ tm \in timers
    /\ now >= tm.due
    /\ LET u == updateTimer(tm.lockedUntil, now)
           flush == mounted /\ effectPending /\ u # timeRemaining
           f == FlushEffect(Rearm(timers, tm, now), effectCleanup, mounted, props, now)
       IN  /\ timers' = IF flush THEN f.timers ELSE Rearm(timers, tm, now)
           /\ effectCleanup' = IF flush THEN f.handle ELSE effectCleanup
           /\ effectPending' = IF flush THEN FALSE ELSE effectPending
           /\ timeRemaining' =
                 IF ~mounted THEN timeRemaining
                 ELSE IF flush /\ EffectStarts(mounted, props)
                      THEN updateTimer(props.lockedUntil, now)
                      ELSE u
    /\ tickedAfterExpiry' =
          (tickedAfterExpiry \/
             (mounted /\ props.lockedUntil # Null /\ now >= props.lockedUntil[1]))
    /\ firedAfterRelease' =
          (firedAfterRelease \/ ~mounted \/ props.lockedUntil = Null)
    /\ UNCHANGED << mounted, now, props, showResetDialog, isUnlocking >>
    /\ RenderIfChanged
    /\ UNCHANGED << unlockVars, propChanges >>

\* The wall clock advances; a due timer callback is held back MaxLate steps
\* at most.
AdvanceTime ==
    /\ now < MaxNow
    /\ \A tm \in timers : now < tm.due + MaxLate
    /\ now' = now + 1
    /\ UNCHANGED << mounted, props, local, view, effectPending, effectCleanup,
                    timers, unlockVars, propChanges, history >>

(* ------------------------------- the parent ---------------------------- *)

PropChangeResetting(p, freshDate) ==
    /\ mounted
    /\ p.passwordSetAt = props.passwordSetAt
    /\ ~effectPending
    /\ propChanges < MaxPropChanges
    /\ props' = p
    /\ propChanges' = propChanges + 1
    /\ effectPending' =
          (\/ p.lockedUntil # props.lockedUntil
           \/ (p.lockedUntil # Null /\ freshDate))
    /\ showResetDialog' = FALSE
    /\ UNCHANGED << isUnlocking, timeRemaining >>
    /\ view' = Render(p, FALSE, isUnlocking, timeRemaining, now)
    /\ UNCHANGED << mounted, now, effectCleanup, timers, unlockVars, history >>

\* The parent renders the component again with props p.  The effect is
\* scheduled when its dependency [lockedUntil] differs from the last render's:
\* another value, or (Object.is on Date objects) another object for the same
\* instant.  The state cells keep their values.  (The parent is taken to
\* keep passwordSetAt: the password badge reads nothing else of the state.)
PropChange(p, freshDate) ==
    /\ mounted
    /\ p.passwordSetAt = props.passwordSetAt
    /\ ~effectPending
    /\ propChanges < MaxPropChanges
    /\ props' = p
    /\ propChanges' = propChanges + 1
    /\ effectPending' =
          (\/ p.lockedUntil # props.lockedUntil
           \/ (p.lockedUntil # Null /\ freshDate))
    /\ view' = Render(p, showResetDialog, isUnlocking, timeRemaining, now)
    /\ UNCHANGED << mounted, now, local, effectCleanup, timers, unlockVars, history >>

\* The parent removes the component: its output leaves the screen and the
\* effect's cleanup, when there is one, is scheduled.
Unmount ==
    /\ mounted
    /\ ~effectPending
    /\ mounted' = FALSE
    /\ view' = NoView
    /\ effectPending' = (effectCleanup # Null)
    /\ UNCHANGED << now, props, local, effectCleanup, timers, unlockVars,
                    propChanges, history >>

(* ------------------------------ unlock action -------------------------- *)

UnlockClickableIgnoringDisabled(v) == v.unlockButton

\* The Unlock button is on screen and not disabled={isUnlocking}.
UnlockClickable(v) == v.unlockButton /\ ~v.unlockDisabled

\* supabase.rpc('reset_failed_login', { member_number: memberNumber })
RpcRequest(memberNumber) ==
    [ fn |-> "reset_failed_login", member_number |-> memberNumber ]

\* toast.success("Account has been unlocked", { description: ... ${memberName} })
SuccessToast(memberName) ==
    [ kind |-> "success", title |-> "Account has been unlocked",
      description |-> "Successfully unlocked account for " \o memberName ]

ErrorToastGeneric(error) ==
    [ kind |-> "error", title |-> "Failed to unlock account",
      description |-> "Something went wrong" ]

\* toast.error("Failed to unlock account", { description: error.message })
ErrorToast(error) ==
    [ kind |-> "error", title |-> "Failed to unlock account",
      description |-> error.message ]

\* Lines 85-111 from the answer on: what is thrown inside the try block, the
\* toasts the try and catch blocks show, whether the handler's promise is
\* rejected, whether the call is made again.
HandleResponse(inv, outcome) ==
    LET thrown == IF outcome.kind = "ok"
                  THEN Null
                  ELSE <<[message |-> outcome.message]>>
    IN  [ toasts |-> IF thrown = Null
                     THEN <<SuccessToast(inv.memberName)>>
                     ELSE <<ErrorToast(thrown[1])>>,
          rejected |-> FALSE,
          retry |-> FALSE ]

\* finally { setIsUnlocking(false) }: ignored by React after teardown.
SetIsUnlockingFinally(isMounted, iu) == IF isMounted THEN FALSE ELSE iu

\* A click on Unlock: handleUnlockAccount up to its await, with the
\* memberNumber and memberName of the render on screen.
ClickUnlock ==
    /\ mounted
    /\ ~effectPending
    /\ UnlockClickable(view)
    /\ Len(invocations) < MaxUnlocks
    /\ isUnlocking' = TRUE
    /\ invocations' = Append(invocations,
          [ memberNumber |-> props.memberNumber, memberName |-> props.memberName,
            outcome |-> Null ])
    /\ rpcLog' = Append(rpcLog,
          [ inv |-> Len(invocations) + 1, request |-> RpcRequest(props.memberNumber),
            disabled |-> isUnlocking' ])
    /\ UNCHANGED << mounted, now, props, showResetDialog, timeRemaining >>
    /\ RenderIfChanged
    /\ UNCHANGED << effectPending, effectCleanup, timers, toasts, unhandled,
                    propChanges, history >>

\* The answer to invocation i arrives and handleUnlockAccount runs to its end.
Respond(i, outcome) ==
    /\ i \in 1..Len(invocations)
    /\ invocations[i].outcome = Null
    /\ mounted => ~effectPending
    /\ LET r == HandleResponse(invocations[i], outcome)
       IN  /\ toasts' = toasts \o
                 [ k \in 1..Len(r.toasts) |->
                     [ inv |-> i, toast |-> r.toasts[k], afterTeardown |-> ~mounted ] ]
           /\ unhandled' = (unhandled \/ r.rejected)
           /\ rpcLog' = IF r.retry
                        THEN Append(rpcLog,
                               [ inv |-> i,
                                 request |-> RpcRequest(invocations[i].memberNumber),
                                 disabled |-> isUnlocking ])
                        ELSE rpcLog
    /\ invocations' = [invocations EXCEPT ![i].outcome = <<outcome>>]
    /\ isUnlocking' = SetIsUnlockingFinally(mounted, isUnlocking)
    /\ UNCHANGED << mounted, now, props, showResetDialog, timeRemaining >>
    /\ IF mounted THEN RenderIfChanged ELSE view' = view
    /\ UNCHANGED << effectPending, effectCleanup, timers, propChanges, history >>

(* ------------------------------ reset dialog --------------------------- *)

\* onClick={() => setShowResetDialog(true)}
ClickResetPassword ==
    /\ mounted
    /\ ~effectPending
    /\ showResetDialog' = TRUE
    /\ UNCHANGED << mounted, now, props, isUnlocking, timeRemaining >>
    /\ RenderIfChanged
    /\ UNCHANGED << effectPending, effectCleanup, timers, unlockVars,
                    propChanges, history >>

\* onOpenChange={setShowResetDialog}
onOpenChange(open) == open

\* AdminPasswordResetDialog closes itself: it calls onOpenChange(false) while
\* it is open.
DialogClose ==
    /\ mounted
    /\ ~effectPending
    /\ view.dialogOpen
    /\ showResetDialog' = onOpenChange(FALSE)
    /\ UNCHANGED << mounted, now, props, isUnlocking, timeRemaining >>
    /\ RenderIfChanged
    /\ UNCHANGED << effectPending, effectCleanup, timers, unlockVars,
                    propChanges, history >>

(* ---------------------------- specification ---------------------------- *)

Next ==
    \/ RunEffect
    \/ \E tm \in timers : Tick(tm)
    \/ AdvanceTime
    \/ \E p \in PropsValues, freshDate \in BOOLEAN : PropChange(p, freshDate)
    \/ Unmount
    \/ ClickUnlock
    \/ \E i \in 1..MaxUnlocks, outcome \in Outcomes : Respond(i, outcome)
    \/ ClickResetPassword
    \/ DialogClose

Spec == Init /\ [][Next]_vars

(* -------------------------------- claims ------------------------------- *)

Pending == { i \in 1..Len(invocations) : invocations[i].outcome = Null }
ToastsOf(i) == SelectSeq(toasts, LAMBDA x : x.inv = i)
AgeSteps == now - props.passwordSetAt[1]
StatusNow == passwordAgeStatus(passwordAgeInDays(props.passwordSetAt, now))

\* C1: with lockedUntil left alone by the parent, once the timer's callback
\* has run at or after the expiry, neither the lock badge nor the Unlock
\* button is on screen.
C1_BadgeGoneAfterExpiryTick ==
    (mounted /\ propChanges = 0 /\ tickedAfterExpiry)
        => (~view.lockBadge /\ ~view.unlockButton)

\* C2: every call of handleUnlockAccount disables the control before it sends
\* exactly one reset_failed_login request with its member number; an answer
\* without error gives exactly one success toast naming the member, an error
\* or a rejection exactly one error toast with the error's message; then the
\* control is enabled again; nothing is re-thrown and nothing is retried.
C2_UnlockHandled ==
    /\ Len(rpcLog) = Len(invocations)
    /\ ~unhandled
    /\ (mounted /\ Pending = {}) => ~isUnlocking
    /\ \A i \in 1..Len(invocations) :
          LET inv == invocations[i]
              ts == ToastsOf(i)
          IN  /\ rpcLog[i].inv = i
              /\ rpcLog[i].disabled
              /\ rpcLog[i].request =
                    [fn |-> "reset_failed_login", member_number |-> inv.memberNumber]
              /\ inv.outcome = Null =>
                    /\ ts = <<>>
                    /\ mounted => isUnlocking
                    /\ (mounted /\ view.unlockButton) => view.unlockDisabled
              /\ (inv.outcome # Null /\ inv.outcome[1].kind = "ok") =>
                    /\ Len(ts) = 1
                    /\ ts[1].toast.kind = "success"
                    /\ ts[1].toast.description =
                          "Successfully unlocked account for " \o inv.memberName
              /\ (inv.outcome # Null /\ inv.outcome[1].kind # "ok") =>
                    /\ Len(ts) = 1
                    /\ ts[1].toast.kind = "error"
                    /\ ts[1].toast.description = inv.outcome[1].message

\* An unlock answered with an error and a later one answered without, for
\* different members, both finished on the mounted component.
C2_Witness ==
    /\ mounted
    /\ Len(invocations) = 2
    /\ invocations[1].outcome = <<[kind |-> "error", message |-> "denied"]>>
    /\ invocations[2].outcome = <<[kind |-> "ok", message |-> ""]>>
    /\ invocations[1].memberName # invocations[2].memberName
    /\ Len(toasts) = 2
    /\ ~isUnlocking

\* C3: a lock that expires D whole seconds after the first render shows
\* "floor(D/60)m (D mod 60)s" from the first displayed state of the badge,
\* and the badge is gone at the expiry instant at the latest.
C3_CountdownFromFirstFrame ==
    (mounted /\ propChanges = 0 /\ props.lockedUntil # Null) =>
        LET ms == props.lockedUntil[1] * ClockStep
            D == ms \div 1000
        IN  /\ (now = 0 /\ view.lockBadge /\ ms % 1000 = 0) =>
                  view.lockLabel = "Locked for " \o FormatRemaining(D \div 60, D % 60)
            /\ now >= props.lockedUntil[1] => ~view.lockBadge

\* C4 as claimed: 'warning' when the password was set more than 90 days ago,
\* 'success' when 90 days ago or fewer.
C4_StaleAfter90Days ==
    props.passwordSetAt # Null =>
        StatusNow = IF AgeSteps > StaleAfterDays * StepsPerDay
                    THEN "warning" ELSE "success"

\* C4 as amended: 'warning' exactly when the password was set 91 whole days
\* ago or more, 'success' for every younger password, those between 90 and 91
\* days old included; a badge rendered as stale belongs to such a password.
C4_StaleFrom91Days ==
    /\ props.passwordSetAt # Null =>
          StatusNow = IF AgeSteps >= (StaleAfterDays + 1) * StepsPerDay
                      THEN "warning" ELSE "success"
    /\ (mounted /\ view.passwordClass = "yellow") =>
          /\ props.passwordSetAt # Null
          /\ AgeSteps >= (StaleAfterDays + 1) * StepsPerDay

\* A password that has become 91 days old is on screen as stale.
C4_Witness ==
    /\ mounted
    /\ props.passwordSetAt # Null
    /\ AgeSteps >= (StaleAfterDays + 1) * StepsPerDay
    /\ view.passwordClass = "yellow"

\* C5: without a password the badge reads 'No Password' and carries neither
\* the stale nor the fresh classification.
C5_NoPasswordUnclassified ==
    (mounted /\ props.passwordSetAt = Null) =>
        /\ view.passwordLabel = "No Password"
        /\ view.passwordClass \notin {"yellow", "green"}

\* C6: the reset dialog is closed at first; it opens only by the Reset
\* Password button and closes only by the dialog's close callback; no other
\* step changes showResetDialog.
C6_DialogMachine ==
    /\ ~showResetDialog
    /\ [][ showResetDialog' # showResetDialog =>
              \/ (~showResetDialog /\ showResetDialog' /\ ClickResetPassword)
              \/ (showResetDialog /\ ~showResetDialog' /\ DialogClose) ]_vars

\* The dialog is open on screen after a re-render by the parent and an
\* answered unlock call.
C6_Witness ==
    /\ mounted
    /\ showResetDialog
    /\ view.dialogOpen
    /\ propChanges > 0
    /\ Len(toasts) > 0
    /\ timers # {}

\* C7 as claimed: at most one timer; a timer only while the component is
\* mounted with a lockedUntil; no timer callback after lockedUntil became
\* null or the component was torn down.
C7_TimerOnlyWhileLocked ==
    /\ Cardinality(timers) <= 1
    /\ timers # {} => (mounted /\ props.lockedUntil # Null)
    /\ ~firedAfterRelease

\* C7 as amended: at most one timer, and it is the one the effect's cleanup
\* will clear; once no effect flush is pending, a timer is registered exactly
\* when the component is mounted with a lockedUntil, and it counts down to
\* that lockedUntil: after the cleanup that follows teardown or a null
\* lockedUntil no timer is left to fire.
C7_TimerScopedToEffect ==
    /\ Cardinality(timers) <= 1
    /\ \A tm \in timers : effectCleanup = <<tm.id>>
    /\ ~effectPending =>
          /\ timers # {} <=> (mounted /\ props.lockedUntil # Null)
          /\ \A tm \in timers : tm.lockedUntil = props.lockedUntil

\* A callback of the old timer ran after lockedUntil became null or after
\* teardown; the cleanup has run since, the component is gone, no timer is
\* left.
C7_Witness ==
    /\ ~mounted
    /\ firedAfterRelease
    /\ ~effectPending
    /\ timers = {}

\* C8: a change of props resets the three state cells, and a countdown on
\* screen is always one computed from the lockedUntil on screen.
C8_StateResetOnPropChange ==
    /\ [][ (mounted' /\ props' # props) =>
              (~showResetDialog' /\ ~isUnlocking' /\ timeRemaining' = Null) ]_vars
    /\ [] ( (mounted /\ view.lockBadge /\ view.lockLabel # "Locked") =>
              \E t \in 0..now :
                  /\ updateTimer(props.lockedUntil, t) # Null
                  /\ view.lockLabel =
                        "Locked for " \o updateTimer(props.lockedUntil, t)[1] )

\* C9: the answer to a call that outlives the component shows no toast.
C9_AnswerIgnoredAfterTeardown ==
    \A k \in 1..Len(toasts) : ~toasts[k].afterTeardown

\* C10: at most one reset_failed_login call is in flight; while mounted,
\* isUnlocking is true exactly while one is; the Unlock control, when on
\* screen, is then disabled.
C10_OneCallInFlight ==
    /\ Cardinality(Pending) <= 1
    /\ mounted => (isUnlocking <=> Pending # {})
    /\ (mounted /\ Pending # {} /\ view.unlockButton) => view.unlockDisabled

\* A second call is in flight, the first one answered, the control on screen
\* and disabled, the parent having re-rendered in between.
C10_Witness ==
    /\ mounted
    /\ Len(invocations) = 2
    /\ Pending = {2}
    /\ view.unlockButton
    /\ view.unlockDisabled
    /\ propChanges > 0

====
